---- MODULE Spec2Model ----
(***************************************************************************)
(* Graph-structured agent execution engines of the repository.            *)
(*                                                                         *)
(*   Spec          the human-in-the-loop engine                            *)
(*                 (week6-agent-implementation/human_in_loop.py)           *)
(*   SpecExecutor  the tool-use engine                                     *)
(*                 (week6-agent-implementation/agent.py)                   *)
(*   SpecEngines   both engines, each run from its own initial state       *)
(*   SpecTodo      the JSON todo storage used by several threads           *)
(*                 (week1-api-practice/storage/todo_storage.py)            *)
(*   SpecTutor     the tutoring graph                                      *)
(*                 (capstone-project/backend/agents/tutor_agent.py)        *)
(*                                                                         *)
(* A graph run is modelled node by node: an action is one node of the     *)
(* compiled graph together with the conditional edge evaluated on the     *)
(* state the node returns.  Timestamps (datetime.now) are left out of the *)
(* audit entries and of the pending action.  The language model is an     *)
(* input: each Reasoner turn draws its response from Decisions.           *)
(***************************************************************************)
EXTENDS Integers, Sequences, FiniteSets, TLC

VARIABLES
    node,               \* human_in_loop: graph node about to run, "END", or "raised"
    messages,           \* AgentState.messages
    pending_action,     \* AgentState.pending_action, None or <<action>>
    approval_granted,   \* AgentState.approval_granted
    approval_message,   \* AgentState.approval_message
    iteration_count,    \* AgentState.iteration_count
    audit_log,          \* AgentState.audit_log
    invocations,        \* tool handlers invoked so far (the tools' side effects)
    approval_input,     \* what the human typed at the last approval prompt, "" before
    exception,          \* exception that left the graph run, "" if none
    x_node,             \* agent.py: graph node about to run, "END", or "raised"
    x_messages,         \* agent.py AgentState.messages
    iterations,         \* agent.py AgentState.iterations
    max_iterations,     \* agent.py AgentState.max_iterations (when present)
    has_max_iterations, \* whether the initial state carries max_iterations
    todo_file,          \* todo_storage: the list of dicts in the JSON file
    lock_holder,        \* TodoStorage._lock: 0 when free, else the holding thread
    t_pc,               \* per thread: position inside its current storage call
    t_call,             \* per thread: the storage call it is making
    t_data,             \* per thread: the local variable data of the call
    t_result,           \* per thread: what its last completed call returned
    next_uuid,          \* the next value uuid4() gives
    calls_made,         \* storage calls started so far
    serial_file,        \* the list obtained by running the calls one after another
    tu_node,            \* tutor_agent: graph node about to run, "END", or "raised"
    tu_messages,        \* TutorState.messages
    tu_iteration_count, \* TutorState.iteration_count
    needs_code_review,  \* TutorState.needs_code_review
    needs_quiz,         \* TutorState.needs_quiz
    student_code,       \* TutorState.student_code, None or a string
    tu_visits           \* visits of the review and quiz nodes in this run

hil_vars == <<node, messages, pending_action, approval_granted, approval_message,
              iteration_count, audit_log, invocations, approval_input, exception>>
executor_vars == <<x_node, x_messages, iterations, max_iterations, has_max_iterations>>
todo_vars == <<todo_file, lock_holder, t_pc, t_call, t_data, t_result, next_uuid,
               calls_made, serial_file>>
tutor_vars == <<tu_node, tu_messages, tu_iteration_count, needs_code_review, needs_quiz,
                student_code, tu_visits>>
vars == <<hil_vars, executor_vars, todo_vars, tutor_vars>>

----------------------------------------------------------------------------
(* Bounds *)

\* Reasoner turns explored in one run
MaxTurns == 3
\* tool calls in one Reasoner response
MaxCalls == 2
\* threads calling the todo storage
NumThreads == 2
\* storage calls made in one run
MaxTodoCalls == 3

----------------------------------------------------------------------------
(* Values *)

None == <<>>
NoId == <<0, 0>>

Last(s) == s[Len(s)]

\* tool names the Reasoner may ask for; "unknown_tool" is in no table
RequestableTools == {"search_database", "send_email", "delete_records", "unknown_tool"}
\* names of the calls after the first one of a response
TrailingTool == "send_email"

RECURSIVE Repeat(_, _)
Repeat(x, n) == IF n = 0 THEN <<>> ELSE <<x>> \o Repeat(x, n - 1)

\* tool-name lists of the responses the Reasoner may give; <<>> is a final answer
Decisions ==
    {<<>>} \cup {<<t>> \o Repeat(TrailingTool, k) : t \in RequestableTools, k \in 0..(MaxCalls - 1)}

\* what the human types at the prompt
ApprovalInputs == {"yes", "no", "modify"}
\* a tool handler returns or raises
HandlerOutcomes == {"ok", "raise"}

HumanMessage(content) ==
    [type |-> "human", content |-> content, tool_calls |-> <<>>, tool_call_id |-> NoId]
ToolMessage(content, tool_call_id) ==
    [type |-> "tool", content |-> content, tool_calls |-> <<>>, tool_call_id |-> tool_call_id]
\* the response of llm_with_tools.invoke on turn t for the tool-name list names
AIMessage(names, t) ==
    [type |-> "ai",
     content |-> IF names = <<>> THEN "final answer" ELSE "",
     tool_calls |-> [i \in 1..Len(names) |-> [name |-> names[i], args |-> "args", id |-> <<t, i>>]],
     tool_call_id |-> NoId]

AuditEntry(event, tool, risk, detail) ==
    [event |-> event, tool |-> tool, risk |-> risk, detail |-> detail]

RECURSIVE CountType(_, _)
CountType(msgs, type) ==
    IF msgs = <<>> THEN 0
    ELSE (IF Last(msgs).type = type THEN 1 ELSE 0) + CountType(SubSeq(msgs, 1, Len(msgs) - 1), type)

----------------------------------------------------------------------------
(* human_in_loop.py: risk assessment *)

TOOL_RISK_LEVELS ==
    [search_database |-> "low", send_email |-> "medium",
     delete_records |-> "high", modify_pricing |-> "high"]

\* slip: an unknown tool defaults to the lowest risk
get_risk_level_default_low(tool_name) ==
    IF tool_name \in DOMAIN TOOL_RISK_LEVELS THEN TOOL_RISK_LEVELS[tool_name] ELSE "low"

get_risk_level(tool_name) ==
    IF tool_name \in DOMAIN TOOL_RISK_LEVELS THEN TOOL_RISK_LEVELS[tool_name] ELSE "high"

\* slip: every tool asks for approval
requires_approval_always(tool_name) ==
    LET risk == IF tool_name \in DOMAIN TOOL_RISK_LEVELS THEN TOOL_RISK_LEVELS[tool_name] ELSE "high"
    IN  risk \in {"low", "medium", "high"}

\* slip: only high risk asks for approval
requires_approval_high_only(tool_name) ==
    LET risk == IF tool_name \in DOMAIN TOOL_RISK_LEVELS THEN TOOL_RISK_LEVELS[tool_name] ELSE "high"
    IN  risk \in {"high"}

requires_approval(tool_name) ==
    LET risk == IF tool_name \in DOMAIN TOOL_RISK_LEVELS THEN TOOL_RISK_LEVELS[tool_name] ELSE "high"
    IN  risk \in {"medium", "high"}

\* keys of tool_map in execute_approved_action
tool_map == {"search_database", "send_email", "delete_records", "modify_pricing"}

----------------------------------------------------------------------------
(* human_in_loop.py: routing functions *)

HIL_ITERATION_LIMIT == 10

\* slip: the tool calls are looked at before the iteration limit
should_continue_tool_calls_first(msgs, count) ==
    IF Last(msgs).tool_calls # <<>> THEN "check_approval"
    ELSE "end"

should_continue(msgs, count) ==
    IF count >= HIL_ITERATION_LIMIT THEN "end"
    ELSE IF Last(msgs).tool_calls = <<>> THEN "end"
    ELSE "check_approval"

route_approval(pending, msgs) ==
    IF pending # None THEN "request_approval"
    ELSE IF Last(msgs).tool_calls # <<>> THEN "auto_execute"
    ELSE "agent"

\* slip: the approval outcome is ignored
route_after_approval_always_execute(granted) ==
    "execute"

route_after_approval(granted) ==
    IF granted THEN "execute" ELSE "reject"

\* target of a conditional edge's branch
EdgeTarget(branch) == IF branch = "end" THEN "END" ELSE branch

----------------------------------------------------------------------------
(* human_in_loop.py: the audit entries the nodes write *)

approval_requested_entry(tool_name, risk_level, args) ==
    AuditEntry("approval_requested", tool_name, risk_level, args)

\* slip: the grant is logged under the wrong event
approval_granted_entry_wrong_event(pending) ==
    AuditEntry("approval_denied", pending.tool_name, "", "")

approval_granted_entry(pending) ==
    AuditEntry("approval_granted", pending.tool_name, "", "")

approval_denied_entry(pending) ==
    AuditEntry("approval_denied", pending.tool_name, "", "Human operator rejected")

action_executed_entry(tool_name, result) ==
    AuditEntry("action_executed", tool_name, "", result)

auto_executed_entry(tool_name) ==
    AuditEntry("auto_executed", tool_name, "low", "")

----------------------------------------------------------------------------
(* human_in_loop.py: nodes *)

\* an exception leaves the node: its update is not applied and the run stops
Raise(kind) ==
    /\ node' = "raised"
    /\ exception' = kind
    /\ UNCHANGED <<messages, pending_action, approval_granted, approval_message,
                   iteration_count, audit_log>>

\* slip: the turn is counted before the Reasoner is called, and a failed call
\* keeps the count
agent_node_counts_failed_turn ==
    /\ node = "agent"
    /\ CountType(messages, "ai") < MaxTurns
    /\ \/ \E names \in Decisions :
             /\ messages' = Append(messages, AIMessage(names, iteration_count + 1))
             /\ iteration_count' = iteration_count + 1
             /\ node' = EdgeTarget(should_continue(messages', iteration_count'))
             /\ UNCHANGED <<pending_action, approval_granted, approval_message,
                            audit_log, exception>>
       \/ /\ node' = "raised"
          /\ exception' = "ReasonerError"
          /\ iteration_count' = iteration_count + 1
          /\ UNCHANGED <<messages, pending_action, approval_granted, approval_message,
                         audit_log>>
    /\ UNCHANGED <<invocations, approval_input>>

agent_node ==
    /\ node = "agent"
    /\ CountType(messages, "ai") < MaxTurns
    /\ \/ \E names \in Decisions :
             /\ messages' = Append(messages, AIMessage(names, iteration_count + 1))
             /\ iteration_count' = iteration_count + 1
             /\ node' = EdgeTarget(should_continue(messages', iteration_count'))
             /\ UNCHANGED <<pending_action, approval_granted, approval_message,
                            audit_log, exception>>
       \/ \* llm_with_tools.invoke raises
          Raise("ReasonerError")
    /\ UNCHANGED <<invocations, approval_input>>

check_approval_needed ==
    /\ node = "check_approval"
    /\ LET last_message == Last(messages) IN
       IF last_message.tool_calls = <<>>
       THEN /\ pending_action' = None
            /\ UNCHANGED audit_log
       ELSE LET tool_call == last_message.tool_calls[1]
                tool_name == tool_call.name
            IN  IF requires_approval(tool_name)
                THEN /\ pending_action' =
                            <<[tool_name |-> tool_name, tool_args |-> tool_call.args,
                               tool_call_id |-> tool_call.id,
                               risk_level |-> get_risk_level(tool_name)]>>
                     /\ audit_log' = Append(audit_log,
                            approval_requested_entry(tool_name, get_risk_level(tool_name),
                                                     tool_call.args))
                ELSE /\ pending_action' = None
                     /\ UNCHANGED audit_log
    /\ node' = route_approval(pending_action', messages)
    /\ UNCHANGED <<messages, approval_granted, approval_message, iteration_count,
                   invocations, approval_input, exception>>

request_human_approval ==
    /\ node = "request_approval"
    /\ IF pending_action = None
       THEN \* pending['tool_name'] on None raises TypeError
            /\ Raise("TypeError")
            /\ UNCHANGED approval_input
       ELSE \E input \in ApprovalInputs :
            LET pending == pending_action[1] IN
            /\ approval_input' = input
            /\ IF input = "yes"
               THEN /\ approval_granted' = TRUE
                    /\ approval_message' = "Approved by human operator"
                    /\ audit_log' = Append(audit_log, approval_granted_entry(pending))
                    /\ UNCHANGED pending_action
               ELSE IF input = "modify"
               THEN /\ approval_granted' = FALSE
                    /\ approval_message' = "Action rejected - modification requested"
                    /\ pending_action' = None
                    /\ UNCHANGED audit_log
               ELSE /\ approval_granted' = FALSE
                    /\ approval_message' = "Action rejected by human operator"
                    /\ pending_action' = None
                    /\ audit_log' = Append(audit_log, approval_denied_entry(pending))
            /\ node' = route_after_approval(approval_granted')
            /\ UNCHANGED <<messages, iteration_count, exception>>
    /\ UNCHANGED invocations

\* slip: the executed action is left pending
execute_approved_action_keeps_pending ==
    /\ node = "execute"
    /\ UNCHANGED approval_input
    /\ IF pending_action = None
       THEN \* pending["tool_name"] on None raises TypeError
            /\ Raise("TypeError")
            /\ UNCHANGED invocations
       ELSE
       LET pending == pending_action[1]
           tool_name == pending.tool_name
       IN  IF tool_name \notin tool_map
           THEN \* tool_map[tool_name] raises KeyError
                /\ Raise("KeyError")
                /\ UNCHANGED invocations
           ELSE \E outcome \in HandlerOutcomes :
                /\ invocations' = Append(invocations,
                       [tool |-> tool_name, call_id |-> pending.tool_call_id,
                        by |-> "execute", outcome |-> outcome])
                /\    IF outcome = "raise"
                      THEN Raise("ToolException")
                      ELSE /\ messages' = Append(messages,
                                  ToolMessage(<<"result", tool_name>>, pending.tool_call_id))
                           /\ pending_action' = pending_action
                           /\ approval_granted' = FALSE
                           /\ audit_log' = Append(audit_log,
                                  action_executed_entry(tool_name, <<"result", tool_name>>))
                           /\ node' = "agent"
                           /\ UNCHANGED <<approval_message, iteration_count, exception>>

execute_approved_action ==
    /\ node = "execute"
    /\ UNCHANGED approval_input
    /\ IF pending_action = None
       THEN \* pending["tool_name"] on None raises TypeError
            /\ Raise("TypeError")
            /\ UNCHANGED invocations
       ELSE
       LET pending == pending_action[1]
           tool_name == pending.tool_name
       IN  IF tool_name \notin tool_map
           THEN \* tool_map[tool_name] raises KeyError
                /\ Raise("KeyError")
                /\ UNCHANGED invocations
           ELSE \E outcome \in HandlerOutcomes :
                /\ invocations' = Append(invocations,
                       [tool |-> tool_name, call_id |-> pending.tool_call_id,
                        by |-> "execute", outcome |-> outcome])
                /\    IF outcome = "raise"
                      THEN Raise("ToolException")
                      ELSE /\ messages' = Append(messages,
                                  ToolMessage(<<"result", tool_name>>, pending.tool_call_id))
                           /\ pending_action' = None
                           /\ approval_granted' = FALSE
                           /\ audit_log' = Append(audit_log,
                                  action_executed_entry(tool_name, <<"result", tool_name>>))
                           /\ node' = "agent"
                           /\ UNCHANGED <<approval_message, iteration_count, exception>>

\* slip: the rejection message takes the place of the refused request
handle_rejection_replaces_request ==
    /\ node = "reject"
    /\ messages' = Append(SubSeq(messages, 1, Len(messages) - 1),
           HumanMessage(<<"The requested action was not approved.", approval_message,
                          "Please suggest an alternative approach.">>))
    /\ pending_action' = None
    /\ approval_granted' = FALSE
    /\ node' = "agent"
    /\ UNCHANGED <<approval_message, iteration_count, audit_log, invocations,
                   approval_input, exception>>

handle_rejection ==
    /\ node = "reject"
    /\ messages' = Append(messages,
           HumanMessage(<<"The requested action was not approved.", approval_message,
                          "Please suggest an alternative approach.">>))
    /\ pending_action' = None
    /\ approval_granted' = FALSE
    /\ node' = "agent"
    /\ UNCHANGED <<approval_message, iteration_count, audit_log, invocations,
                   approval_input, exception>>

auto_execute_low_risk ==
    /\ node = "auto_execute"
    /\ LET last_message == Last(messages) IN
       IF last_message.tool_calls = <<>>
       THEN /\ node' = "agent"
            /\ UNCHANGED <<messages, audit_log, invocations, exception>>
       ELSE LET tool_call == last_message.tool_calls[1]
                tool_name == tool_call.name
            IN  IF tool_name = "search_database"
                THEN \E outcome \in HandlerOutcomes :
                     /\ invocations' = Append(invocations,
                            [tool |-> tool_name, call_id |-> tool_call.id,
                             by |-> "auto_execute", outcome |-> outcome])
                     /\    IF outcome = "raise"
                           THEN /\ node' = "raised"
                                /\ exception' = "ToolException"
                                /\ UNCHANGED <<messages, audit_log>>
                           ELSE /\ messages' = Append(messages,
                                       ToolMessage(<<"result", tool_name>>, tool_call.id))
                                /\ audit_log' = Append(audit_log,
                                       auto_executed_entry(tool_name))
                                /\ node' = "agent"
                                /\ UNCHANGED exception
                ELSE /\ node' = "agent"
                     /\ UNCHANGED <<messages, audit_log, invocations, exception>>
    /\ UNCHANGED <<pending_action, approval_granted, approval_message, iteration_count,
                   approval_input>>

----------------------------------------------------------------------------
(* human_in_loop.py: the compiled graph and its initial state *)

\* iteration_count of the state handed to agent.invoke: the caller builds the
\* state dict (the nodes read it with state.get("iteration_count", 0)); 8 lets
\* a run reach the hard-coded limit within MaxTurns Reasoner turns
InitialIterationCounts == {0, 8}

Threads == 1..NumThreads
NoCall == [op |-> "none", todo_id |-> 0, title |-> None, completed |-> None]

InitTodoIdle ==
    /\ todo_file = <<>>
    /\ lock_holder = 0
    /\ t_pc = [t \in Threads |-> "idle"]
    /\ t_call = [t \in Threads |-> NoCall]
    /\ t_data = [t \in Threads |-> <<>>]
    /\ t_result = [t \in Threads |-> None]
    /\ next_uuid = 1
    /\ calls_made = 0
    /\ serial_file = <<>>

InitTutorIdle ==
    /\ tu_node = "END"
    /\ tu_messages = <<>>
    /\ tu_iteration_count = 0
    /\ needs_code_review = FALSE
    /\ needs_quiz = FALSE
    /\ student_code = None
    /\ tu_visits = [review |-> 0, quiz |-> 0]

InitExecutorIdle ==
    /\ x_node = "END"
    /\ x_messages = <<>>
    /\ iterations = 0
    /\ max_iterations = 0
    /\ has_max_iterations = FALSE

Init ==
    /\ node = "agent"
    /\ messages = <<HumanMessage("query")>>
    /\ iteration_count \in InitialIterationCounts
    /\ approval_granted = FALSE
    /\ approval_message = ""
    /\ pending_action = None
    /\ audit_log = <<>>
    /\ invocations = <<>>
    /\ approval_input = ""
    /\ exception = ""
    /\ InitExecutorIdle
    /\ InitTodoIdle
    /\ InitTutorIdle

Next ==
    \/ agent_node /\ UNCHANGED <<executor_vars, todo_vars, tutor_vars>>
    \/ check_approval_needed /\ UNCHANGED <<executor_vars, todo_vars, tutor_vars>>
    \/ request_human_approval /\ UNCHANGED <<executor_vars, todo_vars, tutor_vars>>
    \/ execute_approved_action /\ UNCHANGED <<executor_vars, todo_vars, tutor_vars>>
    \/ handle_rejection /\ UNCHANGED <<executor_vars, todo_vars, tutor_vars>>
    \/ auto_execute_low_risk /\ UNCHANGED <<executor_vars, todo_vars, tutor_vars>>

Spec == Init /\ [][Next]_vars

\* Runs that the bound on explored turns never cuts short: they start close
\* enough to the hard-coded limit to reach it.  The nodes run synchronously
\* and every approval prompt is answered: weak fairness of the graph step.
InitLive ==
    /\ node = "agent"
    /\ messages = <<HumanMessage("query")>>
    /\ iteration_count = HIL_ITERATION_LIMIT - MaxTurns
    /\ approval_granted = FALSE
    /\ approval_message = ""
    /\ pending_action = None
    /\ audit_log = <<>>
    /\ invocations = <<>>
    /\ approval_input = ""
    /\ exception = ""
    /\ InitExecutorIdle
    /\ InitTodoIdle
    /\ InitTutorIdle

SpecLive == InitLive /\ [][Next]_vars /\ WF_vars(Next)

----------------------------------------------------------------------------
(* human_in_loop.py under re-invocation: the session is resumed and a step *)
(* of the approval protocol runs a second time on the persisted state     *)

\* repeated approval_requested entries in the audit log
Rerequests ==
    Cardinality({i \in 1..(Len(audit_log) - 1) :
                    /\ audit_log[i].event = "approval_requested"
                    /\ audit_log[i + 1].event = "approval_requested"})

\* the gate is pending and has not been answered; approval is requested
\* again (once in a run): check_approval_needed runs once more on the same state
rerequest_approval ==
    /\ node = "request_approval"
    /\ pending_action # None
    /\ Rerequests = 0
    /\ LET last_message == Last(messages) IN
       IF last_message.tool_calls = <<>>
       THEN /\ pending_action' = None
            /\ UNCHANGED audit_log
       ELSE LET tool_call == last_message.tool_calls[1]
                tool_name == tool_call.name
            IN  IF requires_approval(tool_name)
                THEN /\ pending_action' =
                            <<[tool_name |-> tool_name, tool_args |-> tool_call.args,
                               tool_call_id |-> tool_call.id,
                               risk_level |-> get_risk_level(tool_name)]>>
                     /\ audit_log' = Append(audit_log,
                            approval_requested_entry(tool_name, get_risk_level(tool_name),
                                                     tool_call.args))
                ELSE /\ pending_action' = None
                     /\ UNCHANGED audit_log
    /\ node' = route_approval(pending_action', messages)
    /\ UNCHANGED <<messages, approval_granted, approval_message, iteration_count,
                   invocations, approval_input, exception>>

\* handler invocations made for the tool call with this id
InvocationsOf(call_id) == {k \in DOMAIN invocations : invocations[k].call_id = call_id}

\* the approved action has just been executed and the approve decision is
\* delivered a second time: the run re-enters the approval gate
redeliver_approval ==
    /\ node = "agent"
    /\ approval_input = "yes"
    /\ Last(messages).type = "tool"
    /\ Cardinality(InvocationsOf(Last(messages).tool_call_id)) = 1
    /\ \A k \in InvocationsOf(Last(messages).tool_call_id) : invocations[k].by = "execute"
    /\ node' = "request_approval"
    /\ UNCHANGED <<messages, pending_action, approval_granted, approval_message,
                   iteration_count, audit_log, invocations, approval_input, exception>>

NextResume ==
    \/ Next
    \/ rerequest_approval /\ UNCHANGED <<executor_vars, todo_vars, tutor_vars>>
    \/ redeliver_approval /\ UNCHANGED <<executor_vars, todo_vars, tutor_vars>>

SpecResume == Init /\ [][NextResume]_vars

----------------------------------------------------------------------------
(* agent.py: the tool-use engine built by create_agent_executor *)

\* tool names the Reasoner of the tool-use engine may ask for
XRequestableTools == {"calculator", "get_current_time", "unknown_tool"}
XTrailingTool == "search_web"

XDecisions ==
    {<<>>} \cup {<<t>> \o Repeat(XTrailingTool, k) : t \in XRequestableTools, k \in 0..(MaxCalls - 1)}

\* keys of tool_map in tool_node
executor_tool_map == {"calculator", "search_web", "get_current_time"}

NamedToolMessage(content, tool_call_id, name) ==
    [type |-> "tool", content |-> content, tool_calls |-> <<>>,
     tool_call_id |-> tool_call_id, name |-> name]
XHumanMessage(content) ==
    [type |-> "human", content |-> content, tool_calls |-> <<>>,
     tool_call_id |-> NoId, name |-> ""]
XAIMessage(names, t) ==
    [type |-> "ai",
     content |-> IF names = <<>> THEN "final answer" ELSE "",
     tool_calls |-> [i \in 1..Len(names) |-> [name |-> names[i], args |-> "args", id |-> <<t, i>>]],
     tool_call_id |-> NoId, name |-> ""]

DEFAULT_MAX_ITERATIONS == 10

\* state.get("max_iterations", 10)
get_max_iterations == IF has_max_iterations THEN max_iterations ELSE DEFAULT_MAX_ITERATIONS

executor_should_continue(msgs, its, bound) ==
    IF its >= bound THEN "end"
    ELSE IF Last(msgs).tool_calls # <<>> THEN "continue"
    ELSE "end"

executor_agent_node ==
    /\ x_node = "agent"
    /\ CountType(x_messages, "ai") < MaxTurns
    /\ \/ \E names \in XDecisions :
             /\ x_messages' = Append(x_messages, XAIMessage(names, iterations + 1))
             /\ iterations' = iterations + 1
             /\ x_node' = (IF executor_should_continue(x_messages', iterations', get_max_iterations) = "continue"
                           THEN "tools" ELSE "END")
       \/ \* llm_with_tools.invoke raises; run_agent catches it and returns None
          /\ x_node' = "raised"
          /\ UNCHANGED <<x_messages, iterations>>
    /\ UNCHANGED <<max_iterations, has_max_iterations>>

\* slip: a raising handler leaves its call unanswered
tool_result_drops_failed_call(tool_call, outcome) ==
    IF tool_call.name \in executor_tool_map
    THEN IF outcome = "ok"
         THEN NamedToolMessage(<<"result", tool_call.name>>, tool_call.id, tool_call.name)
         ELSE NamedToolMessage(<<"Error executing", tool_call.name>>, NoId, "")
    ELSE NamedToolMessage(<<"Unknown tool:", tool_call.name>>, tool_call.id, tool_call.name)

\* the ToolMessage tool_node appends for one tool call
tool_result(tool_call, outcome) ==
    IF tool_call.name \in executor_tool_map
    THEN IF outcome = "ok"
         THEN NamedToolMessage(<<"result", tool_call.name>>, tool_call.id, tool_call.name)
         ELSE NamedToolMessage(<<"Error executing", tool_call.name>>, tool_call.id, tool_call.name)
    ELSE NamedToolMessage(<<"Unknown tool:", tool_call.name>>, tool_call.id, tool_call.name)

\* slip: a visit of the tool node is counted as an iteration
executor_tool_node_counts_visit ==
    /\ x_node = "tools"
    /\ LET calls == Last(x_messages).tool_calls IN
       \E outcomes \in [1..Len(calls) -> HandlerOutcomes] :
          x_messages' = x_messages \o [i \in 1..Len(calls) |-> tool_result(calls[i], outcomes[i])]
    /\ x_node' = "agent"
    /\ iterations' = iterations + 1
    /\ UNCHANGED <<max_iterations, has_max_iterations>>

executor_tool_node ==
    /\ x_node = "tools"
    /\ LET calls == Last(x_messages).tool_calls IN
       \E outcomes \in [1..Len(calls) -> HandlerOutcomes] :
          x_messages' = x_messages \o [i \in 1..Len(calls) |-> tool_result(calls[i], outcomes[i])]
    /\ x_node' = "agent"
    /\ UNCHANGED <<iterations, max_iterations, has_max_iterations>>

\* agent.py's AgentState has no audit log and no limit flag: the engine
\* writes no audit entries, and a result holds these keys
executor_audit_log == <<>>
executor_result_keys == {"messages", "iterations", "max_iterations"}

\* max_iterations values passed to run_agent
MaxIterationsArgs == {0, 1, 2, 3}
\* iterations of a state handed to the compiled graph without max_iterations
\* (run_validation.py invokes the graph on its own state dict); 8 lets a run
\* reach the default bound within MaxTurns Reasoner turns
InitialIterations == {0, 8}

InitHilIdle ==
    /\ node = "END"
    /\ messages = <<>>
    /\ iteration_count = 0
    /\ approval_granted = FALSE
    /\ approval_message = ""
    /\ pending_action = None
    /\ audit_log = <<>>
    /\ invocations = <<>>
    /\ approval_input = ""
    /\ exception = ""

\* run_agent(query, max_iterations), or agent.invoke on a state without max_iterations
InitExecutor ==
    /\ x_node = "agent"
    /\ x_messages = <<XHumanMessage("query")>>
    /\ \/ /\ has_max_iterations = TRUE
          /\ max_iterations \in MaxIterationsArgs
          /\ iterations = 0
       \/ /\ has_max_iterations = FALSE
          /\ max_iterations = 0
          /\ iterations \in InitialIterations
    /\ InitHilIdle
    /\ InitTodoIdle
    /\ InitTutorIdle

NextExecutor ==
    \/ executor_agent_node /\ UNCHANGED <<hil_vars, todo_vars, tutor_vars>>
    \/ executor_tool_node /\ UNCHANGED <<hil_vars, todo_vars, tutor_vars>>

SpecExecutor == InitExecutor /\ [][NextExecutor]_vars

----------------------------------------------------------------------------
(* todo_storage.py: TodoStorage, one instance shared by the threads.  The  *)
(* timestamps created_at and updated_at and the description are left out   *)
(* of a todo.                                                              *)

\* str(uuid) and UUID(string)
str_uuid(u) == <<"uuid", u>>
UUID(s) == s[2]

Todo(id, title, completed) == [id |-> id, title |-> title, completed |-> completed]

todo_to_dict(todo) ==
    [id |-> str_uuid(todo.id), title |-> todo.title, completed |-> todo.completed]

dict_to_todo(todo_dict) ==
    [id |-> UUID(todo_dict.id), title |-> todo_dict.title, completed |-> todo_dict.completed]

\* index of the first item whose id is str(todo_id), 0 when the loop finds none
FirstIndex(data, todo_id) ==
    IF \E i \in DOMAIN data : data[i].id = str_uuid(todo_id)
    THEN CHOOSE i \in DOMAIN data :
            /\ data[i].id = str_uuid(todo_id)
            /\ \A j \in DOMAIN data : data[j].id = str_uuid(todo_id) => i <= j
    ELSE 0

\* The body of each method between _read_data and the return: data is what
\* _read_data gave; the outcome holds the list after the body, whether
\* _write_data was called, and the returned value (None, or <<value>>).
create_todo(data, new_todo) ==
    [data |-> Append(data, todo_to_dict(new_todo)), write |-> TRUE, result |-> <<new_todo>>]

get_all_todos(data) == [i \in DOMAIN data |-> dict_to_todo(data[i])]

update_todo(data, todo_id, todo_update) ==
    LET i == FirstIndex(data, todo_id) IN
    IF i = 0 THEN [data |-> data, write |-> FALSE, result |-> None]
    ELSE LET item == [data[i] EXCEPT
                         !.title = IF todo_update.title # None
                                   THEN todo_update.title[1] ELSE @,
                         !.completed = IF todo_update.completed # None
                                       THEN todo_update.completed[1] ELSE @]
         IN  [data |-> [data EXCEPT ![i] = item], write |-> TRUE,
              result |-> <<dict_to_todo(item)>>]

\* slip: data.pop() removes the last item instead of item i
delete_todo_pops_last(data, todo_id) ==
    LET i == FirstIndex(data, todo_id) IN
    IF i = 0 THEN [data |-> data, write |-> FALSE, result |-> <<FALSE>>]
    ELSE [data |-> SubSeq(data, 1, Len(data) - 1),
          write |-> TRUE, result |-> <<TRUE>>]

delete_todo(data, todo_id) ==
    LET i == FirstIndex(data, todo_id) IN
    IF i = 0 THEN [data |-> data, write |-> FALSE, result |-> <<FALSE>>]
    ELSE [data |-> SubSeq(data, 1, i - 1) \o SubSeq(data, i + 1, Len(data)),
          write |-> TRUE, result |-> <<TRUE>>]

toggle_completed(data, todo_id) ==
    LET i == FirstIndex(data, todo_id) IN
    IF i = 0 THEN [data |-> data, write |-> FALSE, result |-> None]
    ELSE LET item == [data[i] EXCEPT !.completed = ~@]
         IN  [data |-> [data EXCEPT ![i] = item], write |-> TRUE,
              result |-> <<dict_to_todo(item)>>]

\* slip: pending counts every todo
count_todos_pending_is_total(todos) ==
    LET total == Len(todos)
        completed == Cardinality({i \in DOMAIN todos : todos[i].completed})
    IN  [total |-> total, completed |-> completed, pending |-> total]

\* count_todos on the list get_all_todos returned
count_todos(todos) ==
    LET total == Len(todos)
        completed == Cardinality({i \in DOMAIN todos : todos[i].completed})
    IN  [total |-> total, completed |-> completed, pending |-> total - completed]

\* the calls a thread may make; todo_id ranges over the ids given out so far
\* and the next one, which is not stored
TodoUpdates ==
    {[title |-> <<"b">>, completed |-> None], [title |-> None, completed |-> <<TRUE>>]}
TodoCalls ==
    {[op |-> "create", todo_id |-> 0, title |-> <<"a">>, completed |-> <<c>>] : c \in BOOLEAN}
    \cup {[op |-> "update", todo_id |-> i, title |-> u.title, completed |-> u.completed] :
             i \in 1..next_uuid, u \in TodoUpdates}
    \cup {[op |-> o, todo_id |-> i, title |-> None, completed |-> None] :
             o \in {"toggle", "delete"}, i \in 1..next_uuid}
    \cup {[op |-> "count", todo_id |-> 0, title |-> None, completed |-> None]}

\* the outcome of a call's body on the list it read
call_outcome(call, data) ==
    CASE call.op = "create" ->
            create_todo(data, Todo(call.todo_id, call.title[1], call.completed[1]))
      [] call.op = "update" ->
            update_todo(data, call.todo_id, [title |-> call.title, completed |-> call.completed])
      [] call.op = "delete" -> delete_todo(data, call.todo_id)
      [] call.op = "toggle" -> toggle_completed(data, call.todo_id)
      [] call.op = "count" ->
            [data |-> data, write |-> FALSE, result |-> <<count_todos(get_all_todos(data))>>]

\* a thread enters a storage method
begin_call(t) ==
    /\ t_pc[t] = "idle"
    /\ calls_made < MaxTodoCalls
    /\ \E call \in TodoCalls : t_call' = [t_call EXCEPT ![t] = call]
    /\ t_pc' = [t_pc EXCEPT ![t] = "acquire"]
    /\ calls_made' = calls_made + 1
    /\ UNCHANGED <<todo_file, lock_holder, t_data, t_result, next_uuid, serial_file>>

\* slip: the lock is taken whether or not another thread holds it
lock_acquire_ignores_holder(t) ==
    /\ t_pc[t] = "acquire"
    /\ lock_holder' = t
    /\ t_pc' = [t_pc EXCEPT ![t] = "read"]
    /\ UNCHANGED <<todo_file, t_call, t_data, t_result, next_uuid, calls_made, serial_file>>

\* with self._lock: the thread blocks until the lock is free
lock_acquire(t) ==
    /\ t_pc[t] = "acquire"
    /\ lock_holder = 0
    /\ lock_holder' = t
    /\ t_pc' = [t_pc EXCEPT ![t] = "read"]
    /\ UNCHANGED <<todo_file, t_call, t_data, t_result, next_uuid, calls_made, serial_file>>

\* data = self._read_data(); create_todo has drawn uuid4() just before
read_data(t) ==
    /\ t_pc[t] = "read"
    /\ t_data' = [t_data EXCEPT ![t] = todo_file]
    /\ IF t_call[t].op = "create"
       THEN /\ t_call' = [t_call EXCEPT ![t].todo_id = next_uuid]
            /\ next_uuid' = next_uuid + 1
       ELSE UNCHANGED <<t_call, next_uuid>>
    /\ t_pc' = [t_pc EXCEPT ![t] = "write"]
    /\ UNCHANGED <<todo_file, lock_holder, t_result, calls_made, serial_file>>

\* the rest of the method: the change of data, self._write_data(data) when
\* the method writes, the return and the release of the lock
write_data_and_return(t) ==
    /\ t_pc[t] = "write"
    /\ LET outcome == call_outcome(t_call[t], t_data[t]) IN
       /\ todo_file' = IF outcome.write THEN outcome.data ELSE todo_file
       /\ t_result' = [t_result EXCEPT ![t] = outcome.result]
    /\ serial_file' = call_outcome(t_call[t], serial_file).data
    /\ lock_holder' = 0
    /\ t_data' = [t_data EXCEPT ![t] = <<>>]
    /\ t_pc' = [t_pc EXCEPT ![t] = "idle"]
    /\ UNCHANGED <<t_call, next_uuid, calls_made>>

\* the JSON file when the storage is constructed: created empty, or an
\* existing file with two todos
InitialFiles ==
    {<<>>, <<todo_to_dict(Todo(1, "a", FALSE)), todo_to_dict(Todo(2, "a", TRUE))>>}

InitTodo ==
    /\ todo_file \in InitialFiles
    /\ serial_file = todo_file
    /\ next_uuid = Len(todo_file) + 1
    /\ lock_holder = 0
    /\ t_pc = [t \in Threads |-> "idle"]
    /\ t_call = [t \in Threads |-> NoCall]
    /\ t_data = [t \in Threads |-> <<>>]
    /\ t_result = [t \in Threads |-> None]
    /\ calls_made = 0
    /\ InitHilIdle
    /\ InitExecutorIdle
    /\ InitTutorIdle

NextTodo ==
    \/ \E t \in Threads : begin_call(t) /\ UNCHANGED <<hil_vars, executor_vars, tutor_vars>>
    \/ \E t \in Threads : lock_acquire(t) /\ UNCHANGED <<hil_vars, executor_vars, tutor_vars>>
    \/ \E t \in Threads : read_data(t) /\ UNCHANGED <<hil_vars, executor_vars, tutor_vars>>
    \/ \E t \in Threads :
          write_data_and_return(t) /\ UNCHANGED <<hil_vars, executor_vars, tutor_vars>>

SpecTodo == InitTodo /\ [][NextTodo]_vars

----------------------------------------------------------------------------
(* tutor_agent.py: the tutoring graph built by create_tutoring_agent *)

MAX_AGENT_ITERATIONS == 10

\* tools tool_execution_node dispatches on
TutorTools == {"execute_python_code", "search_concepts", "analyze_code_quality"}
\* tool names the tutor's model may ask for
TutorRequestableTools == {"execute_python_code", "unknown_tool"}
TutorTrailingTool == "search_concepts"

TutorDecisions ==
    {<<>>} \cup {<<t>> \o Repeat(TutorTrailingTool, k) :
                    t \in TutorRequestableTools, k \in 0..(MaxCalls - 1)}

\* the message code_review_node or quiz_generation_node appends
SpecialistMessage(heading) ==
    [type |-> "ai", content |-> heading, tool_calls |-> <<>>, tool_call_id |-> NoId]

\* responses of the tutor's model in the message list
TutorTurns ==
    Cardinality({i \in DOMAIN tu_messages :
                    /\ tu_messages[i].type = "ai"
                    /\ tu_messages[i].content \in {"", "final answer"}})

\* slip: the tool calls are looked at before the iteration limit
tutor_should_continue_tools_first(count, review, quiz, msgs) ==
    IF msgs # <<>> /\ Last(msgs).tool_calls # <<>> THEN "tools"
    ELSE IF count >= MAX_AGENT_ITERATIONS THEN "end"
    ELSE IF review THEN "review"
    ELSE IF quiz THEN "quiz"
    ELSE "end"

\* should_continue of tutor_agent.py
tutor_should_continue(count, review, quiz, msgs) ==
    IF count >= MAX_AGENT_ITERATIONS THEN "end"
    ELSE IF review THEN "review"
    ELSE IF quiz THEN "quiz"
    ELSE IF msgs # <<>> /\ Last(msgs).tool_calls # <<>> THEN "tools"
    ELSE "end"

should_continue_after_tools(count) ==
    IF count >= MAX_AGENT_ITERATIONS THEN "end" ELSE "tutor"

\* an exception leaves the node: its update is not applied and the run stops
TutorRaise ==
    /\ tu_node' = "raised"
    /\ UNCHANGED <<tu_messages, tu_iteration_count, needs_code_review, needs_quiz>>

tutor_node ==
    /\ tu_node = "tutor"
    /\ TutorTurns < MaxTurns
    /\ \/ \E names \in TutorDecisions :
             /\ tu_messages' = Append(tu_messages, AIMessage(names, tu_iteration_count + 1))
             /\ tu_iteration_count' = tu_iteration_count + 1
             /\ tu_node' = EdgeTarget(tutor_should_continue(tu_iteration_count',
                                          needs_code_review, needs_quiz, tu_messages'))
             /\ UNCHANGED <<needs_code_review, needs_quiz>>
       \/ \* llm_with_tools.ainvoke raises
          TutorRaise
    /\ UNCHANGED <<student_code, tu_visits>>

\* the ToolMessage tool_execution_node appends for one tool call
tutor_tool_message(tool_call) ==
    IF tool_call.name \in TutorTools
    THEN ToolMessage(<<"result", tool_call.name>>, tool_call.id)
    ELSE ToolMessage(<<"Unknown tool:", tool_call.name>>, tool_call.id)

tool_execution_node ==
    /\ tu_node = "tools"
    /\ LET calls == Last(tu_messages).tool_calls IN
       IF calls = <<>>
       THEN /\ tu_node' = EdgeTarget(should_continue_after_tools(tu_iteration_count))
            /\ UNCHANGED <<tu_messages, tu_iteration_count, needs_code_review, needs_quiz>>
       ELSE \E outcomes \in [1..Len(calls) -> HandlerOutcomes] :
            IF \E i \in 1..Len(calls) : calls[i].name \in TutorTools /\ outcomes[i] = "raise"
            THEN \* the tool's invoke raises inside the loop: there is no try/except
                 TutorRaise
            ELSE /\ tu_messages' =
                       tu_messages \o [i \in 1..Len(calls) |-> tutor_tool_message(calls[i])]
                 /\ tu_node' = EdgeTarget(should_continue_after_tools(tu_iteration_count))
                 /\ UNCHANGED <<tu_iteration_count, needs_code_review, needs_quiz>>
    /\ UNCHANGED <<student_code, tu_visits>>

code_review_node ==
    /\ tu_node = "review"
    /\ tu_visits' = [tu_visits EXCEPT !.review = @ + 1]
    /\ IF student_code = None
       THEN \* if not code: return {}
            /\ tu_node' = "tutor"
            /\ UNCHANGED <<tu_messages, tu_iteration_count, needs_code_review, needs_quiz>>
       ELSE \/ /\ tu_messages' = Append(tu_messages, SpecialistMessage("Code Review:"))
               /\ needs_code_review' = FALSE
               /\ tu_node' = "tutor"
               /\ UNCHANGED <<tu_iteration_count, needs_quiz>>
            \/ \* the reviewer's llm.ainvoke raises
               TutorRaise
    /\ UNCHANGED student_code

quiz_generation_node ==
    /\ tu_node = "quiz"
    /\ tu_visits' = [tu_visits EXCEPT !.quiz = @ + 1]
    /\ \/ /\ tu_messages' = Append(tu_messages, SpecialistMessage("Practice Quiz:"))
          /\ needs_quiz' = FALSE
          /\ tu_node' = "tutor"
          /\ UNCHANGED <<tu_iteration_count, needs_code_review>>
       \/ \* the quiz generator's llm.ainvoke raises
          TutorRaise
    /\ UNCHANGED student_code

\* iteration_count of the state handed to the compiled graph; 8 lets a run
\* reach MAX_AGENT_ITERATIONS within MaxTurns tutor turns
InitialTutorCounts == {0, 8}

\* the state the graph is invoked on: tutor_student builds it with both flags
\* False and no student_code; the compiled graph accepts any TutorState
InitTutor ==
    /\ tu_node = "tutor"
    /\ tu_messages = <<HumanMessage("message")>>
    /\ tu_iteration_count \in InitialTutorCounts
    /\ needs_code_review \in BOOLEAN
    /\ needs_quiz \in BOOLEAN
    /\ student_code \in {None, <<"code">>}
    /\ tu_visits = [review |-> 0, quiz |-> 0]
    /\ InitHilIdle
    /\ InitExecutorIdle
    /\ InitTodoIdle

NextTutor ==
    \/ tutor_node /\ UNCHANGED <<hil_vars, executor_vars, todo_vars>>
    \/ tool_execution_node /\ UNCHANGED <<hil_vars, executor_vars, todo_vars>>
    \/ code_review_node /\ UNCHANGED <<hil_vars, executor_vars, todo_vars>>
    \/ quiz_generation_node /\ UNCHANGED <<hil_vars, executor_vars, todo_vars>>

SpecTutor == InitTutor /\ [][NextTutor]_vars

----------------------------------------------------------------------------
(* Both engines: a run of either graph from its own initial state *)

InitEngines == Init \/ InitExecutor

NextEngines ==
    \/ Next
    \/ NextExecutor

SpecEngines == InitEngines /\ [][NextEngines]_vars

----------------------------------------------------------------------------
(* Properties of the human-in-the-loop engine (checked under Spec) *)

ClassifiedLow(tool_name) ==
    tool_name \in DOMAIN TOOL_RISK_LEVELS /\ TOOL_RISK_LEVELS[tool_name] = "low"

AuditIndices(event) == {i \in DOMAIN audit_log : audit_log[i].event = event}
ExecutionIndices == AuditIndices("action_executed") \cup AuditIndices("auto_executed")

\* C1: no silent escalation.  A tool classified low never gets a pending
\* action or an approval_requested entry; a tool classified medium or high,
\* or absent from the risk table, never reaches the auto-execute step: no
\* auto_executed entry names it, its handler is only invoked by the execute
\* step, and that step runs no more often than approvals were granted.
C1_NoSilentEscalation ==
    /\ \A i \in AuditIndices("approval_requested") : ~ClassifiedLow(audit_log[i].tool)
    /\ pending_action # None => ~ClassifiedLow(pending_action[1].tool_name)
    /\ node = "auto_execute" => ClassifiedLow(Last(messages).tool_calls[1].name)
    /\ \A i \in AuditIndices("auto_executed") : ClassifiedLow(audit_log[i].tool)
    /\ \A i \in DOMAIN invocations :
          IF ClassifiedLow(invocations[i].tool)
          THEN invocations[i].by = "auto_execute"
          ELSE invocations[i].by = "execute"
    /\ Cardinality({i \in DOMAIN invocations : invocations[i].by = "execute"})
          <= Cardinality(AuditIndices("approval_granted"))

\* a low-risk call was auto-executed and an unknown tool now waits at the gate
C1_Witness ==
    /\ AuditIndices("auto_executed") # {}
    /\ node = "request_approval"
    /\ pending_action # None
    /\ pending_action[1].tool_name = "unknown_tool"

\* C2: approval precedes execution.  Every action_executed entry directly
\* follows the approval_granted entry, and that one the approval_requested
\* entry, of the same pending action; the approval_requested entry is in the
\* log when the engine waits at the gate; no approval_requested entry is
\* followed by more than one execution entry.
C2_ApprovalPrecedesExecution ==
    /\ \A i \in AuditIndices("action_executed") :
          /\ i >= 3
          /\ audit_log[i - 1].event = "approval_granted"
          /\ audit_log[i - 1].tool = audit_log[i].tool
          /\ audit_log[i - 2].event = "approval_requested"
          /\ audit_log[i - 2].tool = audit_log[i].tool
    /\ node = "request_approval" =>
          /\ pending_action # None
          /\ audit_log # <<>>
          /\ Last(audit_log).event = "approval_requested"
          /\ Last(audit_log).tool = pending_action[1].tool_name
          /\ pending_action[1].tool_call_id = Last(messages).tool_calls[1].id
    /\ node = "execute" =>
          /\ pending_action # None
          /\ Len(audit_log) >= 2
          /\ Last(audit_log).event = "approval_granted"
          /\ Last(audit_log).tool = pending_action[1].tool_name
          /\ audit_log[Len(audit_log) - 1].event = "approval_requested"
    /\ Cardinality(AuditIndices("action_executed"))
          <= Cardinality(AuditIndices("approval_requested"))

\* an approved action has been executed
C2_Witness ==
    /\ AuditIndices("action_executed") # {}
    /\ \E i \in DOMAIN invocations : invocations[i].by = "execute"

\* id of the tool call a rejection message at position i answers
RejectedCallId(i) == messages[i - 1].tool_calls[1].id

C4_NoTraceOfRejectedCall ==
    \A i \in 2..Len(messages) :
        messages[i].type = "human" =>
            /\ messages[i - 1].type = "ai"
            /\ messages[i - 1].tool_calls # <<>>
            /\ \A j \in DOMAIN messages :
                  messages[j].type = "tool" => messages[j].tool_call_id # RejectedCallId(i)
            /\ \A k \in DOMAIN invocations : invocations[k].call_id # RejectedCallId(i)

C4_Step ==
    /\ (node = "request_approval" /\ approval_input' # "yes") =>
          /\ node' = "reject"
          /\ invocations' = invocations
          /\ messages' = messages
          /\ AuditIndices("action_executed")' = AuditIndices("action_executed")
    /\ node = "reject" =>
          /\ node' = "agent"
          /\ invocations' = invocations
          /\ audit_log' = audit_log
          /\ Len(messages') = Len(messages) + 1
          /\ SubSeq(messages', 1, Len(messages)) = messages
          /\ Last(messages').type = "human"

\* C4: a rejected action is never executed.  On any answer other than
\* approve the gate routes to the rejection step; from the gate to the next
\* Reasoner turn no handler is invoked, no ToolResult and no action_executed
\* entry is appended, and the run never holds a ToolResult or a handler
\* invocation for a rejected call id.
C4_RejectedNeverExecuted == []C4_NoTraceOfRejectedCall /\ [][C4_Step]_vars

\* a modify answer has been turned into the rejection message
C4_Witness ==
    /\ node = "agent"
    /\ approval_input = "modify"
    /\ Len(messages) > 1
    /\ Last(messages).type = "human"

\* C5: audit completeness.  Every action_executed or auto_executed entry has
\* exactly one decision_made entry between the preceding execution entry and
\* itself, and an action_executed entry directly follows its
\* approval_requested and approval_granted entries.
C5_AuditCompleteness ==
    \A i \in ExecutionIndices :
        /\ Cardinality({j \in AuditIndices("decision_made") :
                          /\ j < i
                          /\ \A k \in ExecutionIndices : k < i => k < j}) = 1
        /\ audit_log[i].event = "action_executed" =>
              /\ i >= 3
              /\ audit_log[i - 1].event = "approval_granted"
              /\ audit_log[i - 2].event = "approval_requested"

\* C6: every resolution of the gate is audited.  The gate appends exactly
\* one approval_granted or approval_denied entry for each of approve, reject
\* and modify, and the entry of a modify is a denial whose reason differs
\* from the plain-reject reason.
C6_EveryResolutionAudited ==
    [][(node = "request_approval" /\ node' # "raised") =>
          /\ Len(audit_log') = Len(audit_log) + 1
          /\ Last(audit_log').event \in {"approval_granted", "approval_denied"}
          /\ approval_input' = "yes" <=> Last(audit_log').event = "approval_granted"
          /\ approval_input' = "modify" =>
                Last(audit_log').detail # "Human operator rejected"]_vars

\* position of the latest Reasoner message, 0 if there is none
LastAIIndex ==
    IF \E i \in DOMAIN messages : messages[i].type = "ai"
    THEN CHOOSE i \in DOMAIN messages :
            /\ messages[i].type = "ai"
            /\ \A j \in DOMAIN messages : messages[j].type = "ai" => j <= i
    ELSE 0

\* C7: every requested tool call is resolved.  When the Reasoner is about to
\* be called again, each tool call of its latest response has been answered
\* by a ToolResult with its call id or by a rejection message, in order.
C7_EveryCallResolved ==
    (node = "agent" /\ LastAIIndex > 0) =>
        LET k == LastAIIndex
            calls == messages[k].tool_calls
        IN  /\ Len(messages) - k = Len(calls)
            /\ \A c \in 1..Len(calls) :
                  \/ messages[k + c].type = "human"
                  \/ /\ messages[k + c].type = "tool"
                     /\ messages[k + c].tool_call_id = calls[c].id

\* C8: tool failure is recovered locally.  After a handler raised, the run
\* has not been aborted, a ToolResult with the call id and an error audit
\* entry have been appended, and the pending action is cleared.
C8_ToolFailureRecovered ==
    \A i \in DOMAIN invocations :
        invocations[i].outcome = "raise" =>
            /\ node # "raised"
            /\ \E j \in DOMAIN messages :
                  /\ messages[j].type = "tool"
                  /\ messages[j].tool_call_id = invocations[i].call_id
            /\ AuditIndices("error") # {}
            /\ node = "agent" => pending_action = None

\* C9: the execute step never fails on its own.  For every pending action
\* that reaches the execute step (a raising handler set aside, see C8), the
\* step appends a result message for the call id, clears the pending action
\* and returns to Reasoning.
C9_ExecuteCompletes ==
    [][(node = "execute" /\ pending_action # None /\ exception' # "ToolException") =>
          /\ node' = "agent"
          /\ pending_action' = None
          /\ Last(messages').type = "tool"
          /\ Last(messages').tool_call_id = pending_action[1].tool_call_id]_vars

\* C10: fail-safe classification of unknown tools.  For a tool name absent
\* from the risk table the lookup gives high and approval is required, and
\* the approval check on a response whose first call names such a tool
\* creates a pending action of risk high for that call and routes to the gate.
C10_UnknownToolFailSafe ==
    [][(/\ node = "check_approval"
        /\ Last(messages).tool_calls # <<>>
        /\ Last(messages).tool_calls[1].name \notin DOMAIN TOOL_RISK_LEVELS) =>
          LET tool_call == Last(messages).tool_calls[1] IN
          /\ get_risk_level(tool_call.name) = "high"
          /\ requires_approval(tool_call.name)
          /\ pending_action' # None
          /\ pending_action'[1].tool_name = tool_call.name
          /\ pending_action'[1].tool_call_id = tool_call.id
          /\ pending_action'[1].risk_level = "high"
          /\ node' = "request_approval"
          /\ invocations' = invocations]_vars

\* an unknown tool waits at the approval gate as a high-risk pending action
C10_Witness ==
    /\ node = "request_approval"
    /\ pending_action # None
    /\ pending_action[1].tool_name = "unknown_tool"
    /\ pending_action[1].risk_level = "high"
    /\ Last(audit_log).event = "approval_requested"

C14_RejectionFrame ==
    [][node = "reject" =>
          /\ Len(messages') = Len(messages) + 1
          /\ SubSeq(messages', 1, Len(messages)) = messages
          /\ Last(messages').type = "human"
          /\ Len(audit_log') = Len(audit_log) + 1
          /\ SubSeq(audit_log', 1, Len(audit_log)) = audit_log
          /\ Last(audit_log').event = "action_rejected"
          /\ pending_action' = None
          /\ iteration_count' = iteration_count]_vars

\* C15: pending action lifecycle.  There is at most one pending action; it
\* is created only by the approval check, for the first tool call of the
\* latest response when that tool is classified medium or high or is
\* unknown; it is None whenever the Reasoner is about to be invoked and when
\* the run has terminated.
C15_PendingLifecycle ==
    /\ [](Len(pending_action) <= 1)
    /\ [](pending_action # None =>
             /\ node \in {"request_approval", "execute", "raised"}
             /\ ~ClassifiedLow(pending_action[1].tool_name)
             /\ pending_action[1].risk_level \in {"medium", "high"}
             /\ \E i \in DOMAIN messages :
                   /\ i = LastAIIndex
                   /\ messages[i].tool_calls # <<>>
                   /\ messages[i].tool_calls[1].id = pending_action[1].tool_call_id
                   /\ messages[i].tool_calls[1].name = pending_action[1].tool_name)
    /\ [](node \in {"agent", "END"} => pending_action = None)
    /\ [][pending_action' # pending_action =>
             \/ pending_action' = None
             \/ node = "check_approval" /\ pending_action = None]_vars

\* a second pending action waits at the gate after an earlier one was
\* approved and executed
C15_Witness ==
    /\ node = "request_approval"
    /\ pending_action # None
    /\ pending_action[1].tool_name = "send_email"
    /\ AuditIndices("action_executed") # {}
    /\ AuditIndices("approval_denied") # {}

\* C16 (checked under SpecLive): forward progress.  With every approval
\* request answered, every run reaches the terminal state END (a run whose
\* Reasoner call itself failed set aside).
C16_ForwardProgress ==
    <>(node = "END" \/ exception = "ReasonerError")

\* events of the audit log, in order
AuditEvents == [i \in DOMAIN audit_log |-> audit_log[i].event]

\* the run so far is one Reasoner turn asking for delete_records alone,
\* followed by one message of the given type
OneHighRiskCallThen(type) ==
    /\ Len(messages) = 3
    /\ messages[2].type = "ai"
    /\ Len(messages[2].tool_calls) = 1
    /\ messages[2].tool_calls[1].name = "delete_records"
    /\ messages[3].type = type

\* C17: Scenario B.  After one high-risk tool call was approved and
\* executed, the audit log is decision_made, approval_requested,
\* approval_granted, action_executed, and the ToolResult carries the
\* handler's result for the call id.
C17_ScenarioApprove ==
    (OneHighRiskCallThen("tool") /\ approval_input = "yes") =>
        /\ AuditEvents = <<"decision_made", "approval_requested",
                           "approval_granted", "action_executed">>
        /\ messages[3].tool_call_id = messages[2].tool_calls[1].id
        /\ messages[3].content = <<"result", "delete_records">>

\* C18: Scenario C.  After one high-risk tool call was rejected, the audit
\* log is decision_made, approval_requested, approval_denied,
\* action_rejected, nothing was executed, and a Human message asking for an
\* alternative precedes the next Reasoner turn.
C18_ScenarioReject ==
    (OneHighRiskCallThen("human") /\ approval_input = "no") =>
        /\ AuditEvents = <<"decision_made", "approval_requested",
                           "approval_denied", "action_rejected">>
        /\ AuditIndices("action_executed") = {}
        /\ invocations = <<>>
        /\ node = "agent"

\* C20: auto-execution.  Every auto-execute step invokes the handler once,
\* appends exactly one ToolResult with the call id and exactly one
\* auto_executed entry and nothing else, and returns to Reasoning.
C20_AutoExecuteAppendsResult ==
    [][node = "auto_execute" =>
          LET tool_call == Last(messages).tool_calls[1] IN
          /\ Len(invocations') = Len(invocations) + 1
          /\ Last(invocations').call_id = tool_call.id
          /\ Len(messages') = Len(messages) + 1
          /\ SubSeq(messages', 1, Len(messages)) = messages
          /\ Last(messages').type = "tool"
          /\ Last(messages').tool_call_id = tool_call.id
          /\ Len(audit_log') = Len(audit_log) + 1
          /\ SubSeq(audit_log', 1, Len(audit_log)) = audit_log
          /\ Last(audit_log').event = "auto_executed"
          /\ node' = "agent"]_vars

\* C22: the approval outcome is transient.  Whenever the Reasoner is about
\* to be invoked, approval_granted is false and approval_message no longer
\* carries the outcome of the last approval cycle; the approval check starts
\* every cycle without a grant.
C22_ApprovalOutcomeTransient ==
    /\ node = "agent" => (approval_granted = FALSE /\ approval_message = "")
    /\ node = "check_approval" => approval_granted = FALSE

----------------------------------------------------------------------------
(* Properties of both engines (checked under SpecEngines) *)

IsPrefix(s, t) == Len(s) <= Len(t) /\ SubSeq(t, 1, Len(s)) = s

\* C21: append-only state.  Every transition leaves the messages and audit
\* entries that existed before it as an unchanged prefix of the new message
\* list and audit log.
C21_AppendOnly ==
    [][/\ IsPrefix(messages, messages')
       /\ IsPrefix(audit_log, audit_log')
       /\ IsPrefix(x_messages, x_messages')]_vars

\* a rejection and an approved execution have both left their messages and
\* audit entries
C21_Witness ==
    /\ node = "agent"
    /\ \E i \in DOMAIN messages : i > 1 /\ messages[i].type = "human"
    /\ \E i \in DOMAIN messages : messages[i].type = "tool"
    /\ AuditIndices("approval_denied") # {}
    /\ AuditIndices("action_executed") # {}

\* counters a routing function may be handed
RoutingCounts == 0..(HIL_ITERATION_LIMIT + 1)
RoutingBounds == MaxIterationsArgs \cup {DEFAULT_MAX_ITERATIONS}

\* C26: should_continue.  In both engines the routing function returns end
\* exactly when the counter is greater than or equal to the bound or the
\* latest Reasoner message carries no tool calls, and continue otherwise;
\* the edge after a Reasoner turn follows it, so no engine is at an approval
\* or execution step with the counter at the bound.
C26_ShouldContinueMatches ==
    /\ [](messages # <<>> =>
             \A count \in RoutingCounts :
                should_continue(messages, count) =
                   IF count >= HIL_ITERATION_LIMIT \/ Last(messages).tool_calls = <<>>
                   THEN "end" ELSE "check_approval")
    /\ [](x_messages # <<>> =>
             \A count \in RoutingCounts, bound \in RoutingBounds :
                executor_should_continue(x_messages, count, bound) =
                   IF count >= bound \/ Last(x_messages).tool_calls = <<>>
                   THEN "end" ELSE "continue")
    /\ [][(node = "agent" /\ node' # "raised") =>
             node' = IF \/ iteration_count' >= HIL_ITERATION_LIMIT
                        \/ Last(messages').tool_calls = <<>>
                     THEN "END" ELSE "check_approval"]_vars
    /\ [][(x_node = "agent" /\ x_node' # "raised") =>
             x_node' = IF \/ iterations' >= get_max_iterations
                          \/ Last(x_messages').tool_calls = <<>>
                       THEN "END" ELSE "tools"]_vars
    /\ [](node \in {"check_approval", "request_approval", "execute", "auto_execute"} =>
             iteration_count < HIL_ITERATION_LIMIT)
    /\ [](x_node = "tools" => iterations < get_max_iterations)

\* the turn that reached the limit asked for tool calls and the run ended
C26_Witness ==
    /\ node = "END"
    /\ iteration_count = HIL_ITERATION_LIMIT
    /\ Last(messages).type = "ai"
    /\ Last(messages).tool_calls # <<>>

\* C27: the iteration counter counts Reasoner turns.  A Reasoner turn
\* increases the counter by exactly 1 and appends one Reasoner message; no
\* other step changes it; so the counter is its initial value plus the number
\* of Reasoner messages appended, and it never decreases.
C27_CounterCountsTurns ==
    /\ [][/\ (node = "agent" /\ node' # "raised") => iteration_count' = iteration_count + 1
          /\ node # "agent" => iteration_count' = iteration_count
          /\ iteration_count' - iteration_count =
                CountType(messages', "ai") - CountType(messages, "ai")
          /\ iteration_count' >= iteration_count]_vars
    /\ [][/\ (x_node = "agent" /\ x_node' # "raised") => iterations' = iterations + 1
          /\ x_node # "agent" => iterations' = iterations
          /\ iterations' - iterations =
                CountType(x_messages', "ai") - CountType(x_messages, "ai")
          /\ iterations' >= iterations]_vars
    /\ [](iteration_count - CountType(messages, "ai") \in InitialIterationCounts)
    /\ [](iterations - CountType(x_messages, "ai") \in InitialIterations)

\* two Reasoner turns of the tool-use engine, each followed by a visit of the
\* tool node
C27_Witness ==
    /\ x_node = "agent"
    /\ iterations = 2
    /\ CountType(x_messages, "ai") = 2
    /\ CountType(x_messages, "tool") >= 2
    /\ Last(x_messages).type = "tool"

----------------------------------------------------------------------------
(* Properties of the tool-use engine (checked under SpecExecutor) *)

\* C3: iteration bound.  The iterations counter never exceeds the bound
\* (max_iterations, or 10 when the state carries none), and no Reasoner
\* turn (the step that advances the counter) is taken once the counter has
\* reached the bound.
C3_IterationBound ==
    /\ [](iterations <= get_max_iterations)
    /\ [][iterations' # iterations => iterations < get_max_iterations]_vars

\* C19: Scenario D.  With max_iterations = 3 and a Reasoner that asks for
\* tool calls on every turn, the run makes exactly 3 Reasoner turns, leaves
\* exactly 3 decision_made entries, and ends normally in a result flagged as
\* iteration-limit-reached.
C19_ScenarioBound ==
    (/\ has_max_iterations
     /\ max_iterations = 3
     /\ x_node = "END"
     /\ \A i \in DOMAIN x_messages :
           x_messages[i].type = "ai" => x_messages[i].tool_calls # <<>>) =>
        /\ iterations = 3
        /\ CountType(x_messages, "ai") = 3
        /\ Cardinality({i \in DOMAIN executor_audit_log :
                           executor_audit_log[i].event = "decision_made"}) = 3
        /\ "iteration_limit_reached" \in executor_result_keys

\* C28: the tool node answers every call.  One visit appends exactly one
\* ToolMessage per tool call of the latest Reasoner message, in the order of
\* the calls and each with its call's id and name; the content is the
\* handler's result, the error text of a raising handler, or the unknown-tool
\* text; the node does not raise and the run goes back to the Reasoner.
C28_ToolNodeAnswersEveryCall ==
    [][x_node = "tools" =>
          LET calls == Last(x_messages).tool_calls
              n == Len(x_messages)
          IN  /\ calls # <<>>
              /\ Len(x_messages') = n + Len(calls)
              /\ SubSeq(x_messages', 1, n) = x_messages
              /\ \A i \in 1..Len(calls) :
                    /\ x_messages'[n + i].type = "tool"
                    /\ x_messages'[n + i].tool_call_id = calls[i].id
                    /\ x_messages'[n + i].name = calls[i].name
                    /\ IF calls[i].name \in executor_tool_map
                       THEN x_messages'[n + i].content \in
                               {<<"result", calls[i].name>>, <<"Error executing", calls[i].name>>}
                       ELSE x_messages'[n + i].content = <<"Unknown tool:", calls[i].name>>
              /\ x_node' = "agent"]_vars

\* one visit answered an unknown tool and a raising handler
C28_Witness ==
    /\ x_node = "agent"
    /\ Len(x_messages) = 4
    /\ x_messages[3].content = <<"Unknown tool:", "unknown_tool">>
    /\ x_messages[4].content = <<"Error executing", "search_web">>

----------------------------------------------------------------------------
(* Properties of the todo storage (checked under SpecTodo) *)

\* thread t returns from its storage call in this step
Returns(t) == t_pc[t] = "write" /\ t_pc'[t] = "idle"

StoredIds == {todo_file[i].id : i \in DOMAIN todo_file}
CompletedIndices == {i \in DOMAIN todo_file : todo_file[i].completed}
PendingIndices == {i \in DOMAIN todo_file : ~todo_file[i].completed}

\* the statistics that describe the stored list
StoredStats ==
    [total |-> Len(todo_file), completed |-> Cardinality(CompletedIndices),
     pending |-> Cardinality(PendingIndices)]

\* C23: todo statistics are consistent.  After any sequence of create,
\* update, toggle and delete calls, count_todos gives total = number of
\* stored todos, completed = number of stored todos whose completed flag is
\* true, and pending = total - completed (the stored todos not completed).
C23_StatsConsistent ==
    /\ [](LET stats == count_todos(get_all_todos(todo_file)) IN
             /\ stats = StoredStats
             /\ stats.pending = stats.total - stats.completed)
    /\ [][\A t \in Threads :
             (Returns(t) /\ t_call[t].op = "count") =>
                /\ t_result'[t] = <<StoredStats>>
                /\ todo_file' = todo_file]_vars

\* count_todos returned after the stored list was changed by earlier calls
C23_Witness ==
    \E t \in Threads :
        /\ t_pc[t] = "idle"
        /\ t_call[t].op = "count"
        /\ calls_made = MaxTodoCalls
        /\ t_result[t] # None
        /\ t_result[t][1].total = 3
        /\ t_result[t][1].completed = 2
        /\ t_result[t][1].pending = 1

RECURSIVE Without(_, _)
\* the list without the items whose id is sid, order kept
Without(data, sid) ==
    IF data = <<>> THEN <<>>
    ELSE (IF data[1].id = sid THEN <<>> ELSE <<data[1]>>) \o Without(Tail(data), sid)

\* C24: operations on a missing todo are no-ops.  For an id that is not
\* stored, update_todo and toggle_completed return None and delete_todo
\* returns False and the stored list stays as it was; deleting an existing
\* id removes exactly that todo and keeps the others and their order.
C24_MissingIdNoOp ==
    [][\A t \in Threads :
          (Returns(t) /\ t_call[t].op \in {"update", "toggle", "delete"}) =>
             LET sid == str_uuid(t_call[t].todo_id) IN
             IF sid \notin StoredIds
             THEN /\ todo_file' = todo_file
                  /\ t_result'[t] = IF t_call[t].op = "delete" THEN <<FALSE>> ELSE None
             ELSE /\ t_result'[t] # None
                  /\ t_call[t].op = "delete" =>
                        /\ t_result'[t] = <<TRUE>>
                        /\ Len(todo_file') = Len(todo_file) - 1
                        /\ todo_file' = Without(todo_file, sid)]_vars

\* one thread deleted the first of the stored todos and another thread's
\* toggle of an id that is not stored returned None
C24_Witness ==
    /\ \E t \in Threads :
          /\ t_pc[t] = "idle"
          /\ t_call[t].op = "delete"
          /\ t_result[t] = <<TRUE>>
          /\ t_call[t].todo_id = 1
    /\ \E t \in Threads :
          /\ t_pc[t] = "idle"
          /\ t_call[t].op = "toggle"
          /\ t_result[t] = None
    /\ todo_file # <<>>
    /\ todo_file[1].id = str_uuid(2)

\* C25: todo storage is thread safe.  At most one thread is between taking
\* and releasing the lock; the list a call writes back is computed from the
\* list that is stored when it writes, so no update is lost; the stored list
\* equals the result of running the calls one after another in the order in
\* which they returned.
C25_ThreadSafe ==
    /\ [](Cardinality({t \in Threads : t_pc[t] \in {"read", "write"}}) <= 1)
    /\ [](\A t \in Threads : t_pc[t] \in {"read", "write"} <=> lock_holder = t)
    /\ [][\A t \in Threads : Returns(t) => t_data[t] = todo_file]_vars
    /\ [](todo_file = serial_file)

\* a thread waits for the lock while another one, which has read the list,
\* is about to write it back, after an earlier call has changed the list
C25_Witness ==
    \E t, u \in Threads :
        /\ t_pc[t] = "acquire"
        /\ t_pc[u] = "write"
        /\ lock_holder = u
        /\ t_call[t].op = "create"
        /\ t_call[u].op = "delete"
        /\ calls_made = MaxTodoCalls
        /\ todo_file # <<>>

----------------------------------------------------------------------------
(* Properties of the tutoring graph (checked under SpecTutor) *)

\* C29: tool execution is always followed by another tutor turn.  The tools
\* node is entered only with iteration_count below MAX_AGENT_ITERATIONS and
\* does not change it, so should_continue_after_tools gives tutor, and no
\* run terminates with a tool result as its last message.
C29_ToolsReturnToTutor ==
    /\ [](tu_node = "tools" => tu_iteration_count < MAX_AGENT_ITERATIONS)
    /\ [][tu_node = "tools" =>
             /\ tu_iteration_count' = tu_iteration_count
             /\ should_continue_after_tools(tu_iteration_count') = "tutor"
             /\ tu_node' \in {"tutor", "raised"}]_vars
    /\ [](tu_node = "END" => Last(tu_messages).type # "tool")

\* the tools node ran one turn below the limit and the tutor is next
C29_Witness ==
    /\ tu_node = "tutor"
    /\ Last(tu_messages).type = "tool"
    /\ tu_iteration_count = MAX_AGENT_ITERATIONS - 1

\* C30: every visit of the review node clears needs_code_review and every
\* visit of the quiz node clears needs_quiz, with or without student_code,
\* so one run visits review at most once and quiz at most once.
C30_FlagsClearedOnVisit ==
    /\ [][(tu_node = "review" /\ tu_node' # "raised") => needs_code_review' = FALSE]_vars
    /\ [][(tu_node = "quiz" /\ tu_node' # "raised") => needs_quiz' = FALSE]_vars
    /\ [](tu_visits.review <= 1 /\ tu_visits.quiz <= 1)

====
